---------------------------- MODULE Spec2Model ----------------------------
(***************************************************************************)
(* A model of the market-gateway of ficc-pricer:                           *)
(*   - market.Manager (internal/market/manager.go): the lock-protected     *)
(*     store of spot rates, discount curves and vol surfaces, with its     *)
(*     goroutines, its sync.RWMutex and the Go heap of map objects its     *)
(*     fields and the snapshots point into;                                *)
(*   - client.PricerClient (internal/client/pricer.go);                    *)
(*   - models (Currency, Contract and the builders).                       *)
(* Each part has its own specifications: Spec and SpecSeq (the Manager),    *)
(* SpecClient, SpecCurrency and SpecContract.  The variables of the other  *)
(* parts stay at their initial value under each of them.                   *)
(***************************************************************************)
EXTENDS Integers, Sequences, FiniteSets, TLC

VARIABLES
    heap,       \* the Go heap of map objects: heap[id] is the content of map id
    mgr,        \* mgr[m]: the three map fields of Manager m (map ids)
    mu,         \* mu[m]: the sync.RWMutex of Manager m
    now,        \* the clock: the value the next time.Now() returns
    pc,         \* pc[g]: where goroutine g is in the method it runs
    frame,      \* frame[g]: the arguments and locals of that call
    snaps,      \* the MarketSnapshot values GetSnapshot has returned so far
    taken,      \* history: taken[i] = what snaps[i] held when GetSnapshot returned it
    cuts,       \* history: cuts[g] = the states the Manager went through during g's GetSnapshot
    crashed     \* the Go runtime has thrown "concurrent map read and map write"

mvars == <<heap, mgr, mu, now, pc, frame, snaps, taken, cuts, crashed>>

VARIABLES
    conn,       \* PricerClient.conn: 0 is nil, i > 0 points to conns[i]
    conns,      \* the grpc.ClientConn objects dialed so far: "open" or "closed"
    sent,       \* the number of RPCs the client has sent to the pricing service
    call,       \* the last call on the client: what it was, what it returned
    live        \* history: a Connect has succeeded and Close was not called since

cvars == <<conn, conns, sent, call, live>>

VARIABLES
    cur,        \* a Currency value
    str,        \* a string
    parsed,     \* the result of the last String / ParseCurrency call
    contract,   \* the Contract value the builders have built so far
    wire        \* a Contract message of the protobuf schema

dvars == <<cur, str, parsed, contract, wire>>

VARIABLES
    req,        \* the Price request: a Contract message, a market snapshot, pricing params
    store,      \* the live market state of the pricing service
    priced,     \* the number of Price calls made, the outcome of the last one and
                \* the live store as it was then
    first       \* the same of the first Price call

evars == <<req, store, priced, first>>

-----------------------------------------------------------------------------
(* Bounds of the model *)

\* number of Managers the program constructs
NumManagers == 2
\* number of goroutines calling Manager methods concurrently
NumProcs == 2
\* number of accepted Update* calls and of GetSnapshot calls in one run of Spec
MaxUpdates == 2
MaxSnapshots == 2
\* the same, in one run of SpecSeq
SeqMaxUpdates == 2
SeqMaxSnapshots == 2
\* the same, under SpecFrame
FrameMaxUpdates == 2
FrameMaxSnapshots == 1

Managers == 1..NumManagers
Procs == 1..NumProcs
\* In Spec, goroutine 1 is the market-data feed (it updates the Managers and loads
\* snapshots into them); the others serve requests (they take snapshots and read
\* them).
Feeders == {1}
Requesters == Procs \ Feeders

\* keys of spotRates and volSurfaces, keys of discountCurves
Pairs == {"EUR/USD", "GBP/USD"}
CurrencyKeys == {"USD"}
Compoundings == {"continuous"}

-----------------------------------------------------------------------------
(* float64: a few representative values, and NaN with IEEE-754 comparisons  *)

F(v) == [nan |-> FALSE, v |-> v]
NaN == [nan |-> TRUE, v |-> 0]
FLt(a, b) == ~a.nan /\ ~b.nan /\ a.v < b.v
FLe(a, b) == ~a.nan /\ ~b.nan /\ a.v <= b.v
FGt(a, b) == ~a.nan /\ ~b.nan /\ a.v > b.v
FGe(a, b) == ~a.nan /\ ~b.nan /\ a.v >= b.v

\* the float64 arguments the callers pass
RateInputs == {F(-1), F(0), F(1), NaN}
FlatRateInputs == {F(-1), F(0), NaN}
VolInputs == {F(-1), F(0), F(1), F(2), NaN}

-----------------------------------------------------------------------------
(* The records of manager.go *)

SpotRate(pair, rate, ts) == [Pair |-> pair, Rate |-> rate, Timestamp |-> ts]
DiscountCurve(ccy, flatRate, comp, ts) ==
    [Currency |-> ccy, FlatRate |-> flatRate, Compounding |-> comp, Timestamp |-> ts]
VolSurface(pair, flatVol, ts) == [Pair |-> pair, FlatVol |-> flatVol, Timestamp |-> ts]
MarketSnapshot(sr, dc, vs, ts) ==
    [SpotRates |-> sr, DiscountCurves |-> dc, VolSurfaces |-> vs, SnapshotTime |-> ts]

\* the zero values the getters return with an error
ZeroSpotRate == SpotRate("", F(0), 0)
ZeroDiscountCurve == DiscountCurve("", F(0), "", 0)
ZeroVolSurface == VolSurface("", F(0), 0)

\* make(map[string]T): an empty map
EmptyMap == [k \in {} |-> 0]
\* a map no reference leads to any more: the garbage collector has freed it
Freed == [k \in {"freed"} |-> 0]
\* (the map replaced by one that holds the new entry only)
MapReplace(f, k, v) == [x \in {k} |-> v]
\* m[k] = v
MapPut(f, k, v) == [x \in DOMAIN f \cup {k} |-> IF x = k THEN v ELSE f[x]]

\* the content of the three maps a Manager or a snapshot points to
ContentOf(sr, dc, vs) == <<heap[sr], heap[dc], heap[vs]>>
StateIn(h, mg, m) == <<h[mg[m].spotRates], h[mg[m].discountCurves], h[mg[m].volSurfaces]>>
ManagerState(m) == StateIn(heap, mgr, m)
SnapshotContent(s) == ContentOf(s.SpotRates, s.DiscountCurves, s.VolSurfaces)

-----------------------------------------------------------------------------
(* Goroutines: calls, frames and return values *)

NilErr == [msg |-> "nil", key |-> "", arg |-> F(0)]
Err(msg, key, arg) == [msg |-> msg, key |-> key, arg |-> arg]

NoFrame ==
    [op |-> "none", m |-> 0, key |-> "", val |-> F(0), comp |-> "",
     sr |-> 0, dc |-> 0, vs |-> 0, err |-> NilErr]

WriteOps == {"UpdateSpotRate", "UpdateDiscountCurve", "UpdateVolSurface", "LoadSnapshot"}
ReadOps == {"GetSpotRate", "GetDiscountCurve", "GetVolSurface", "GetSnapshot", "Stats"}

UpdateOps == {"UpdateSpotRate", "UpdateDiscountCurve", "UpdateVolSurface"}
InFlight(ops) ==
    Cardinality({q \in Procs : pc[q] \in {"Lock", "Pending", "Locked"} /\ frame[q].op \in ops})

Idle(g) == ~crashed /\ pc[g] = "idle"
\* the run has room for one more accepted update, of n (every time.Now() ticks the
\* clock: once per accepted update, once per snapshot), for one more snapshot
UpdateFree(n) == (now - 1 - Len(snaps)) + InFlight(UpdateOps) < n
SnapshotFree(n) == Len(snaps) + InFlight({"GetSnapshot"}) < n
In(g, where, op) == ~crashed /\ pc[g] = where /\ frame[g].op = op

\* (a Lock() that never waits)
CanLockAlways(m) == TRUE

\* sync.RWMutex: Lock() gets the lock when no goroutine holds it in either mode,
\* RLock() when no goroutine holds it for writing and no Lock() has announced
\* itself to the readers (pc "Pending": the writer waits for the readers that hold
\* the lock to leave, and readers that arrive meanwhile wait behind it)
Announced(m) == {q \in Procs : pc[q] = "Pending" /\ frame[q].m = m}
CanLock(m) == mu[m].w = 0 /\ mu[m].r = {}
CanRLock(m) == mu[m].w = 0 /\ Announced(m) = {}
Acquired(g, m, op) ==
    IF op \in WriteOps THEN [mu EXCEPT ![m].w = g] ELSE [mu EXCEPT ![m].r = @ \cup {g}]
Released(g, m, op) ==
    IF op \in WriteOps THEN [mu EXCEPT ![m].w = 0] ELSE [mu EXCEPT ![m].r = @ \ {g}]

\* The call reaches m.mu.Lock() / m.mu.RLock(): it has the lock at once when the
\* lock is free, and blocks at pc "Lock" otherwise.
Enter(g, f) ==
    /\ frame' = [frame EXCEPT ![g] = f]
    /\ IF (f.op \in WriteOps /\ CanLock(f.m)) \/ (f.op \in ReadOps /\ CanRLock(f.m))
       THEN /\ mu' = Acquired(g, f.m, f.op)
            /\ pc' = [pc EXCEPT ![g] = "Locked"]
       ELSE /\ mu' = mu
            /\ pc' = [pc EXCEPT ![g] = "Lock"]
\* The call returns an error before it takes the lock: f.err is what it returns.
Reject(g, f) ==
    /\ frame' = [frame EXCEPT ![g] = f]
    /\ pc' = [pc EXCEPT ![g] = "Return"]
    /\ mu' = mu
Goto(g, where, f) ==
    /\ pc' = [pc EXCEPT ![g] = where]
    /\ frame' = [frame EXCEPT ![g] = f]
\* (a return without the deferred Unlock / RUnlock)
LeaveLocked(g) ==
    /\ mu' = mu
    /\ pc' = [pc EXCEPT ![g] = "idle"]
    /\ frame' = [frame EXCEPT ![g] = NoFrame]
\* the deferred Unlock / RUnlock runs and the call returns
Leave(g) ==
    /\ mu' = Released(g, frame[g].m, frame[g].op)
    /\ pc' = [pc EXCEPT ![g] = "idle"]
    /\ frame' = [frame EXCEPT ![g] = NoFrame]

\* the history of Manager states every GetSnapshot in flight has lived through
\* (a step of a Manager method touches neither the client nor the models)
Track ==
    /\ UNCHANGED <<cvars, dvars, evars>>
    /\ cuts' = [q \in Procs |->
                IF frame'[q].op = "GetSnapshot"
                THEN (IF frame[q].op = "GetSnapshot" THEN cuts[q] ELSE {})
                     \cup {StateIn(heap', mgr', frame'[q].m)}
                ELSE {}]

\* a goroutine blocked in Lock(), no other writer holding the lock or waiting for
\* the readers, makes the readers that arrive from now on wait
Announce(g) ==
    /\ ~crashed /\ pc[g] = "Lock" /\ frame[g].op \in WriteOps
    /\ mu[frame[g].m].w = 0 /\ mu[frame[g].m].r # {} /\ Announced(frame[g].m) = {}
    /\ pc' = [pc EXCEPT ![g] = "Pending"]
    /\ UNCHANGED <<heap, mgr, mu, now, frame, snaps, taken, crashed>>
    /\ Track

\* a goroutine blocked in Lock() gets the lock
Lock(g) ==
    /\ ~crashed /\ pc[g] \in {"Lock", "Pending"} /\ frame[g].op \in WriteOps
    /\ Announced(frame[g].m) \subseteq {g}
    /\ CanLock(frame[g].m)
    /\ mu' = Acquired(g, frame[g].m, frame[g].op)
    /\ pc' = [pc EXCEPT ![g] = "Locked"]
    /\ UNCHANGED <<heap, mgr, now, frame, snaps, taken, crashed>>
    /\ Track

\* a goroutine blocked in RLock() gets the lock
RLock(g) ==
    /\ ~crashed /\ pc[g] = "Lock" /\ frame[g].op \in ReadOps
    /\ CanRLock(frame[g].m)
    /\ mu' = Acquired(g, frame[g].m, frame[g].op)
    /\ pc' = [pc EXCEPT ![g] = "Locked"]
    /\ UNCHANGED <<heap, mgr, now, frame, snaps, taken, crashed>>
    /\ Track

\* a call that returned an error before taking the lock is over
Returned(g) ==
    /\ ~crashed /\ pc[g] = "Return"
    /\ pc' = [pc EXCEPT ![g] = "idle"]
    /\ frame' = [frame EXCEPT ![g] = NoFrame]
    /\ UNCHANGED <<heap, mgr, mu, now, snaps, taken, crashed>>
    /\ Track

-----------------------------------------------------------------------------
(* Manager.UpdateSpotRate / GetSpotRate *)

\* (if rate < 0: the zero rate goes through)
RateRejectedNegative(rate) == FLt(rate, F(0))
\* if rate <= 0 { return fmt.Errorf(...) }
RateRejected(rate) == FLe(rate, F(0))

UpdateSpotRate(g, m, pair, rate) ==
    /\ Idle(g)
    /\ LET f == [NoFrame EXCEPT !.op = "UpdateSpotRate", !.m = m, !.key = pair, !.val = rate]
       IN  IF RateRejected(rate)
           THEN Reject(g, [f EXCEPT !.err = Err("invalid rate: must be positive", pair, rate)])
           ELSE Enter(g, f)
    /\ UNCHANGED <<heap, mgr, now, snaps, taken, crashed>>
    /\ Track

\* m.spotRates[pair] = SpotRate{...}; return nil
UpdateSpotRateWrite(g) ==
    /\ In(g, "Locked", "UpdateSpotRate")
    /\ heap' = [heap EXCEPT ![mgr[frame[g].m].spotRates] =
                   MapPut(@, frame[g].key, SpotRate(frame[g].key, frame[g].val, now))]
    /\ now' = now + 1
    /\ Leave(g)
    /\ UNCHANGED <<mgr, snaps, taken, crashed>>
    /\ Track

GetSpotRate(g, m, pair) ==
    /\ Idle(g)
    /\ Enter(g, [NoFrame EXCEPT !.op = "GetSpotRate", !.m = m, !.key = pair])
    /\ UNCHANGED <<heap, mgr, now, snaps, taken, crashed>>
    /\ Track

\* what GetSpotRate(pair) returns when it reads the Manager's map now
GetSpotRateResult(m, pair) ==
    LET spots == heap[mgr[m].spotRates]
    IN  IF pair \in DOMAIN spots
        THEN [val |-> spots[pair], err |-> NilErr]
        ELSE [val |-> ZeroSpotRate, err |-> Err("spot rate not found for pair", pair, F(0))]

GetSpotRateRead(g) ==
    /\ In(g, "Locked", "GetSpotRate")
    /\ Leave(g)
    /\ UNCHANGED <<heap, mgr, now, snaps, taken, crashed>>
    /\ Track

-----------------------------------------------------------------------------
(* Manager.UpdateDiscountCurve / GetDiscountCurve *)

\* if flatRate < 0 { return fmt.Errorf(...) }
FlatRateRejected(flatRate) == FLt(flatRate, F(0))

UpdateDiscountCurve(g, m, currency, flatRate, compounding) ==
    /\ Idle(g)
    /\ LET f == [NoFrame EXCEPT !.op = "UpdateDiscountCurve", !.m = m, !.key = currency,
                                !.val = flatRate, !.comp = compounding]
       IN  IF FlatRateRejected(flatRate)
           THEN Reject(g, [f EXCEPT !.err =
                              Err("invalid flat rate: must be non-negative", currency, flatRate)])
           ELSE Enter(g, f)
    /\ UNCHANGED <<heap, mgr, now, snaps, taken, crashed>>
    /\ Track

UpdateDiscountCurveWrite(g) ==
    /\ In(g, "Locked", "UpdateDiscountCurve")
    /\ heap' = [heap EXCEPT ![mgr[frame[g].m].discountCurves] =
                   MapPut(@, frame[g].key,
                          DiscountCurve(frame[g].key, frame[g].val, frame[g].comp, now))]
    /\ now' = now + 1
    /\ Leave(g)
    /\ UNCHANGED <<mgr, snaps, taken, crashed>>
    /\ Track

GetDiscountCurve(g, m, currency) ==
    /\ Idle(g)
    /\ Enter(g, [NoFrame EXCEPT !.op = "GetDiscountCurve", !.m = m, !.key = currency])
    /\ UNCHANGED <<heap, mgr, now, snaps, taken, crashed>>
    /\ Track

GetDiscountCurveResult(m, currency) ==
    LET curves == heap[mgr[m].discountCurves]
    IN  IF currency \in DOMAIN curves
        THEN [val |-> curves[currency], err |-> NilErr]
        ELSE [val |-> ZeroDiscountCurve,
              err |-> Err("discount curve not found for currency", currency, F(0))]

GetDiscountCurveRead(g) ==
    /\ In(g, "Locked", "GetDiscountCurve")
    /\ Leave(g)
    /\ UNCHANGED <<heap, mgr, now, snaps, taken, crashed>>
    /\ Track

-----------------------------------------------------------------------------
(* Manager.UpdateVolSurface / GetVolSurface *)

\* if flatVol < 0 || flatVol > 1 { return fmt.Errorf(...) }
FlatVolRejected(flatVol) == FLt(flatVol, F(0)) \/ FGt(flatVol, F(1))

UpdateVolSurface(g, m, pair, flatVol) ==
    /\ Idle(g)
    /\ LET f == [NoFrame EXCEPT !.op = "UpdateVolSurface", !.m = m, !.key = pair, !.val = flatVol]
       IN  IF FlatVolRejected(flatVol)
           THEN Reject(g, [f EXCEPT !.err =
                              Err("invalid flat volatility: must be between 0 and 1", pair, flatVol)])
           ELSE Enter(g, f)
    /\ UNCHANGED <<heap, mgr, now, snaps, taken, crashed>>
    /\ Track

UpdateVolSurfaceWrite(g) ==
    /\ In(g, "Locked", "UpdateVolSurface")
    /\ heap' = [heap EXCEPT ![mgr[frame[g].m].volSurfaces] =
                   MapPut(@, frame[g].key, VolSurface(frame[g].key, frame[g].val, now))]
    /\ now' = now + 1
    /\ Leave(g)
    /\ UNCHANGED <<mgr, snaps, taken, crashed>>
    /\ Track

GetVolSurface(g, m, pair) ==
    /\ Idle(g)
    /\ Enter(g, [NoFrame EXCEPT !.op = "GetVolSurface", !.m = m, !.key = pair])
    /\ UNCHANGED <<heap, mgr, now, snaps, taken, crashed>>
    /\ Track

GetVolSurfaceResult(m, pair) ==
    LET surfaces == heap[mgr[m].volSurfaces]
    IN  IF pair \in DOMAIN surfaces
        THEN [val |-> surfaces[pair], err |-> NilErr]
        ELSE [val |-> ZeroVolSurface, err |-> Err("vol surface not found for pair", pair, F(0))]

GetVolSurfaceRead(g) ==
    /\ In(g, "Locked", "GetVolSurface")
    /\ Leave(g)
    /\ UNCHANGED <<heap, mgr, now, snaps, taken, crashed>>
    /\ Track

-----------------------------------------------------------------------------
(* Manager.GetSnapshot *)

\* The three maps of the snapshot are named when the call starts (make(...) gives
\* each a fresh address; which one is the model's choice) and filled by the loops.
GetSnapshot(g, m) ==
    /\ Idle(g)
    /\ heap' = heap \o <<EmptyMap, EmptyMap, EmptyMap>>
    /\ Enter(g, [NoFrame EXCEPT !.op = "GetSnapshot", !.m = m, !.sr = Len(heap) + 1,
                                !.dc = Len(heap) + 2, !.vs = Len(heap) + 3])
    /\ UNCHANGED <<mgr, now, snaps, taken, crashed>>
    /\ Track

\* spotRates := make(...); for k, v := range m.spotRates { spotRates[k] = v }
CopySpotRates(g) ==
    /\ In(g, "Locked", "GetSnapshot")
    /\ heap' = [heap EXCEPT ![frame[g].sr] = heap[mgr[frame[g].m].spotRates]]
    /\ Goto(g, "CopyCurves", frame[g])
    /\ UNCHANGED <<mgr, mu, now, snaps, taken, crashed>>
    /\ Track

CopyDiscountCurves(g) ==
    /\ In(g, "CopyCurves", "GetSnapshot")
    /\ heap' = [heap EXCEPT ![frame[g].dc] = heap[mgr[frame[g].m].discountCurves]]
    /\ Goto(g, "CopyVols", frame[g])
    /\ UNCHANGED <<mgr, mu, now, snaps, taken, crashed>>
    /\ Track

\* (a GetSnapshot whose third map stays as make(...) left it)
CopyNoVolSurfaces(g) ==
    /\ In(g, "CopyVols", "GetSnapshot")
    /\ LET s == MarketSnapshot(frame[g].sr, frame[g].dc, frame[g].vs, now)
           content == <<heap[s.SpotRates], heap[s.DiscountCurves], heap[s.VolSurfaces]>>
       IN  /\ heap' = heap
           /\ snaps' = Append(snaps, s)
           /\ taken' = Append(taken, [content |-> content,
                                      cut |-> content \in cuts[g],
                                      of |-> frame[g].m])
    /\ now' = now + 1
    /\ Leave(g)
    /\ UNCHANGED <<mgr, crashed>>
    /\ Track

\* the third copy, return MarketSnapshot{..., SnapshotTime: time.Now()} and the
\* deferred RUnlock
CopyVolSurfaces(g) ==
    /\ In(g, "CopyVols", "GetSnapshot")
    /\ LET vols == heap[mgr[frame[g].m].volSurfaces]
           s == MarketSnapshot(frame[g].sr, frame[g].dc, frame[g].vs, now)
           content == <<heap[s.SpotRates], heap[s.DiscountCurves], vols>>
       IN  /\ heap' = [heap EXCEPT ![frame[g].vs] = vols]
           /\ snaps' = Append(snaps, s)
           /\ taken' = Append(taken, [content |-> content,
                                      cut |-> content \in cuts[g],
                                      of |-> frame[g].m])
    /\ now' = now + 1
    /\ Leave(g)
    /\ UNCHANGED <<mgr, crashed>>
    /\ Track

-----------------------------------------------------------------------------
(* Manager.LoadSnapshot *)

\* the snapshot is passed by value: the struct's three map references are copied
LoadSnapshot(g, m, i) ==
    /\ Idle(g)
    /\ i \in DOMAIN snaps
    /\ Enter(g, [NoFrame EXCEPT !.op = "LoadSnapshot", !.m = m, !.sr = snaps[i].SpotRates,
                                !.dc = snaps[i].DiscountCurves, !.vs = snaps[i].VolSurfaces])
    /\ UNCHANGED <<heap, mgr, now, snaps, taken, crashed>>
    /\ Track

\* the map ids some Manager field, snapshot or call in flight refers to
Referenced(mg, fr) ==
    UNION {{mg[m].spotRates, mg[m].discountCurves, mg[m].volSurfaces} : m \in Managers}
    \cup UNION {{snaps[i].SpotRates, snaps[i].DiscountCurves, snaps[i].VolSurfaces} : i \in DOMAIN snaps}
    \cup UNION {{fr[g].sr, fr[g].dc, fr[g].vs} : g \in Procs}

\* (a LoadSnapshot that assigns m.spotRates only)
LoadSnapshotSpotRates(g) ==
    /\ In(g, "Locked", "LoadSnapshot")
    /\ mgr' = [mgr EXCEPT ![frame[g].m].spotRates = frame[g].sr]
    /\ Leave(g)
    /\ heap' = [i \in DOMAIN heap |-> IF i \in Referenced(mgr', frame') THEN heap[i] ELSE Freed]
    /\ UNCHANGED <<now, snaps, taken, crashed>>
    /\ Track

\* m.spotRates = snapshot.SpotRates; ... : the Manager now points to the snapshot's
\* own maps; the maps it pointed to are garbage unless something else refers to them
LoadSnapshotAssign(g) ==
    /\ In(g, "Locked", "LoadSnapshot")
    /\ mgr' = [mgr EXCEPT ![frame[g].m] =
                  [spotRates |-> frame[g].sr, discountCurves |-> frame[g].dc,
                   volSurfaces |-> frame[g].vs]]
    /\ Leave(g)
    /\ heap' = [i \in DOMAIN heap |-> IF i \in Referenced(mgr', frame') THEN heap[i] ELSE Freed]
    /\ UNCHANGED <<now, snaps, taken, crashed>>
    /\ Track

-----------------------------------------------------------------------------
(* Manager.Stats *)

Stats(g, m) ==
    /\ Idle(g)
    /\ Enter(g, [NoFrame EXCEPT !.op = "Stats", !.m = m])
    /\ UNCHANGED <<heap, mgr, now, snaps, taken, crashed>>
    /\ Track

StatsResult(m) ==
    [spot_rates |-> Cardinality(DOMAIN heap[mgr[m].spotRates]),
     discount_curves |-> Cardinality(DOMAIN heap[mgr[m].discountCurves]),
     vol_surfaces |-> Cardinality(DOMAIN heap[mgr[m].volSurfaces])]

StatsRead(g) ==
    /\ In(g, "Locked", "Stats")
    /\ Leave(g)
    /\ UNCHANGED <<heap, mgr, now, snaps, taken, crashed>>
    /\ Track

-----------------------------------------------------------------------------
(* The holder of a MarketSnapshot reads one of its (exported) maps, with no lock *)

SnapshotFields == {"SpotRates", "DiscountCurves", "VolSurfaces"}

ReadSnapshot(g, i, field) ==
    /\ Idle(g)
    /\ i \in DOMAIN snaps
    /\ Goto(g, "SnapRead", [NoFrame EXCEPT !.op = "ReadSnapshot", !.sr = snaps[i][field]])
    /\ UNCHANGED <<heap, mgr, mu, now, snaps, taken, crashed>>
    /\ Track

ReadSnapshotMap(g) ==
    /\ In(g, "SnapRead", "ReadSnapshot")
    /\ Goto(g, "idle", NoFrame)
    /\ UNCHANGED <<heap, mgr, mu, now, snaps, taken, crashed>>
    /\ Track

-----------------------------------------------------------------------------
(* Unsynchronised map accesses.  A Go map is not safe for concurrent use:   *)
(* when a write to a map is concurrent with another access to it, the       *)
(* runtime may throw the fatal error "concurrent map read and map write"    *)
(* (or "concurrent map writes"), or either access may go through.           *)

Access(map, mode) == [map |-> map, mode |-> mode]

\* the map accesses goroutine g performs in its next step
NextAccess(g) ==
    LET m == frame[g].m
        op == frame[g].op
    IN  CASE pc[g] = "Locked" /\ op = "UpdateSpotRate" -> {Access(mgr[m].spotRates, "w")}
          [] pc[g] = "Locked" /\ op = "UpdateDiscountCurve" -> {Access(mgr[m].discountCurves, "w")}
          [] pc[g] = "Locked" /\ op = "UpdateVolSurface" -> {Access(mgr[m].volSurfaces, "w")}
          [] pc[g] = "Locked" /\ op = "GetSpotRate" -> {Access(mgr[m].spotRates, "r")}
          [] pc[g] = "Locked" /\ op = "GetDiscountCurve" -> {Access(mgr[m].discountCurves, "r")}
          [] pc[g] = "Locked" /\ op = "GetVolSurface" -> {Access(mgr[m].volSurfaces, "r")}
          [] pc[g] = "Locked" /\ op = "GetSnapshot" -> {Access(mgr[m].spotRates, "r")}
          [] pc[g] = "CopyCurves" -> {Access(mgr[m].discountCurves, "r")}
          [] pc[g] = "CopyVols" -> {Access(mgr[m].volSurfaces, "r")}
          [] pc[g] = "Locked" /\ op = "Stats" ->
                {Access(mgr[m].spotRates, "r"), Access(mgr[m].discountCurves, "r"),
                 Access(mgr[m].volSurfaces, "r")}
          [] pc[g] = "SnapRead" -> {Access(frame[g].sr, "r")}
          [] OTHER -> {}

Conflict(g, h) ==
    /\ g # h
    /\ \E a \in NextAccess(g), b \in NextAccess(h) :
          a.map = b.map /\ "w" \in {a.mode, b.mode}

DataRace == \E g, h \in Procs : Conflict(g, h)

\* the runtime detects the race and ends the program
Fatal(g, h) ==
    /\ ~crashed
    /\ Conflict(g, h)
    /\ crashed' = TRUE
    /\ UNCHANGED <<heap, mgr, mu, now, pc, frame, snaps, taken>>
    /\ Track

-----------------------------------------------------------------------------
(* The Manager's specifications *)

\* NewManager: three empty maps of its own, an unlocked mutex
MgrInit ==
    /\ heap = [i \in 1..(3 * NumManagers) |-> EmptyMap]
    /\ mgr = [m \in Managers |->
                 [spotRates |-> 3 * m - 2, discountCurves |-> 3 * m - 1, volSurfaces |-> 3 * m]]
    /\ mu = [m \in Managers |-> [w |-> 0, r |-> {}]]
    /\ now = 1
    /\ pc = [g \in Procs |-> "idle"]
    /\ frame = [g \in Procs |-> NoFrame]
    /\ snaps = <<>>
    /\ taken = <<>>
    /\ cuts = [g \in Procs |-> {}]
    /\ crashed = FALSE

\* The goroutines of G call the methods of the Managers of M with arguments of the
\* given sets; a run accepts at most n updates, takes at most n snapshots.
Updates(G, M, pairs, rates, flatRates, vols, n) ==
    \/ \E g \in G, m \in M, pair \in pairs, rate \in rates :
          /\ RateRejected(rate) \/ UpdateFree(n)
          /\ UpdateSpotRate(g, m, pair, rate)
    \/ \E g \in G : UpdateSpotRateWrite(g)
    \/ \E g \in G, m \in M, c \in CurrencyKeys, r \in flatRates, k \in Compoundings :
          /\ FlatRateRejected(r) \/ UpdateFree(n)
          /\ UpdateDiscountCurve(g, m, c, r, k)
    \/ \E g \in G : UpdateDiscountCurveWrite(g)
    \/ \E g \in G, m \in M, pair \in pairs, vol \in vols :
          /\ FlatVolRejected(vol) \/ UpdateFree(n)
          /\ UpdateVolSurface(g, m, pair, vol)
    \/ \E g \in G : UpdateVolSurfaceWrite(g)

Gets(G, M, pairs) ==
    \/ \E g \in G, m \in M, pair \in pairs : GetSpotRate(g, m, pair)
    \/ \E g \in G : GetSpotRateRead(g)
    \/ \E g \in G, m \in M, c \in CurrencyKeys : GetDiscountCurve(g, m, c)
    \/ \E g \in G : GetDiscountCurveRead(g)
    \/ \E g \in G, m \in M, pair \in pairs : GetVolSurface(g, m, pair)
    \/ \E g \in G : GetVolSurfaceRead(g)
    \/ \E g \in G, m \in M : Stats(g, m)
    \/ \E g \in G : StatsRead(g)

Snapshots(G, M, n) ==
    \/ \E g \in G, m \in M : SnapshotFree(n) /\ GetSnapshot(g, m)
    \/ \E g \in G : CopySpotRates(g)
    \/ \E g \in G : CopyDiscountCurves(g)
    \/ \E g \in G : CopyVolSurfaces(g)
    \/ \E g \in G, i \in 1..n, f \in SnapshotFields : ReadSnapshot(g, i, f)
    \/ \E g \in G : ReadSnapshotMap(g)

Loads(G, M, n) ==
    \/ \E g \in G, m \in M, i \in 1..n : LoadSnapshot(g, m, i)
    \/ \E g \in G : LoadSnapshotAssign(g)

\* what only concurrent goroutines do: wait for a lock, race
Blocking(G) ==
    \/ \E g \in G : Lock(g)
    \/ \E g \in G : RLock(g)
    \/ \E g, h \in G : Fatal(g, h)

-----------------------------------------------------------------------------
(* client.PricerClient *)

\* number of connections one run dials with success
MaxConns == 4

\* what grpc.DialContext (blocking, under the 5 s timeout) ends in
DialOutcomes == {"ok", "context deadline exceeded", "connection refused"}

ClientState == [conn |-> conn, conns |-> conns, sent |-> sent]
\* the call op returns err (and ret, for IsConnected)
Returns(op, err, ret) ==
    call' = [op |-> op, err |-> err, ret |-> ret, before |-> ClientState]

\* NewPricerClient: addr and logger set, conn nil
ClientInit ==
    /\ conn = 0
    /\ conns = <<>>
    /\ sent = 0
    /\ call = [op |-> "NewPricerClient", err |-> "nil", ret |-> FALSE,
               before |-> [conn |-> 0, conns |-> <<>>, sent |-> 0]]
    /\ live = FALSE

\* (a Connect that assigns c.conn before it looks at the error)
ConnectAssignsFirst(outcome) ==
    /\ Len(conns) < MaxConns
    /\ conns' = Append(conns, IF outcome = "ok" THEN "open" ELSE "closed")
    /\ conn' = Len(conns) + 1
    /\ live' = (outcome = "ok" \/ live)
    /\ IF outcome # "ok"
       THEN Returns("Connect", "failed to connect to pricing service: " \o outcome, FALSE)
       ELSE Returns("Connect", "nil", FALSE)
    /\ UNCHANGED <<sent, mvars, dvars, evars>>

\* Connect: the dial fails and the error is returned, or it succeeds and c.conn is
\* the new connection (the one c.conn pointed to before stays as it is)
Connect(outcome) ==
    /\ outcome = "ok" => Len(conns) < MaxConns
    /\ IF outcome # "ok"
       THEN /\ Returns("Connect", "failed to connect to pricing service: " \o outcome, FALSE)
            /\ UNCHANGED <<conn, conns, live>>
       ELSE /\ conns' = Append(conns, "open")
            /\ conn' = Len(conns) + 1
            /\ live' = TRUE
            /\ Returns("Connect", "nil", FALSE)
    /\ UNCHANGED <<sent, mvars, dvars, evars>>

\* Close: closes the connection c.conn points to, if any, and returns what
\* grpc.ClientConn.Close returns (an error when it is closed already); c.conn is
\* left as it is
Close ==
    /\ IF conn # 0
       THEN /\ conns' = [conns EXCEPT ![conn] = "closed"]
            /\ Returns("Close",
                       IF conns[conn] = "closed"
                       THEN "grpc: the client connection is closing" ELSE "nil",
                       FALSE)
       ELSE /\ conns' = conns
            /\ Returns("Close", "nil", FALSE)
    /\ live' = FALSE
    /\ UNCHANGED <<conn, sent, mvars, dvars, evars>>

IsConnectedInverted == conn = 0
IsConnected == conn # 0

IsConnectedCall ==
    /\ Returns("IsConnected", "nil", IsConnected)
    /\ UNCHANGED <<conn, conns, sent, live, mvars, dvars, evars>>

\* PriceRequest, UpdateMarket, HealthCheck: placeholders that send nothing
Placeholder(op) ==
    /\ IF ~IsConnected
       THEN Returns(op, "client not connected", FALSE)
       ELSE Returns(op, "not implemented: awaiting protobuf schema generation", FALSE)
    /\ UNCHANGED <<conn, conns, sent, live, mvars, dvars, evars>>
PriceRequest == Placeholder("PriceRequest")
UpdateMarket == Placeholder("UpdateMarket")
HealthCheck == Placeholder("HealthCheck")

-----------------------------------------------------------------------------
(* models: Currency *)

USD == 0
EUR == 1
GBP == 2
JPY == 3
CHF == 4
AUD == 5
CAD == 6

currencyNames ==
    (USD :> "USD") @@ (EUR :> "EUR") @@ (GBP :> "GBP") @@ (JPY :> "JPY") @@
    (CHF :> "CHF") @@ (AUD :> "AUD") @@ (CAD :> "CAD")

\* Currency.String: the map lookup, "" for a key the map does not hold
CurrencyString(c) == IF c \in DOMAIN currencyNames THEN currencyNames[c] ELSE ""

\* ParseCurrency ranges over the map for an entry whose name is s (no two entries
\* have the same name, so the order of the iteration does not matter)
ParseCurrencyZero(s) ==
    IF \E c \in DOMAIN currencyNames : currencyNames[c] = s
    THEN [c |-> CHOOSE c \in DOMAIN currencyNames : currencyNames[c] = s, err |-> "nil"]
    ELSE [c |-> 0, err |-> "nil"]
ParseCurrency(s) ==
    IF \E c \in DOMAIN currencyNames : currencyNames[c] = s
    THEN [c |-> CHOOSE c \in DOMAIN currencyNames : currencyNames[c] = s, err |-> "nil"]
    ELSE [c |-> 0, err |-> "unknown currency: " \o s]

\* the Currency values and the strings the calls are made with
MaxCurrencyInput == 9
CurrencyInputs == (-2)..MaxCurrencyInput
StringInputs ==
    {"USD", "EUR", "GBP", "JPY", "CHF", "AUD", "CAD", "", "usd", "US", "USD ", "XXX"}

NoResult == [op |-> "none", c |-> 0, s |-> "", err |-> "nil"]

CurrencyInit(C, S) ==
    /\ cur \in C
    /\ str \in S
    /\ parsed = NoResult

\* cur.String()
StringCall ==
    /\ parsed' = [op |-> "String", c |-> cur, s |-> CurrencyString(cur), err |-> "nil"]
    /\ UNCHANGED <<cur, str, contract, wire, mvars, cvars, evars>>

\* ParseCurrency(str)
ParseCurrencyCall ==
    /\ parsed' = [op |-> "ParseCurrency", c |-> ParseCurrency(str).c, s |-> str,
                  err |-> ParseCurrency(str).err]
    /\ UNCHANGED <<cur, str, contract, wire, mvars, cvars, evars>>

\* ParseCurrency(cur.String())
RoundTrip ==
    /\ parsed' = [op |-> "RoundTrip", c |-> ParseCurrency(CurrencyString(cur)).c,
                  s |-> CurrencyString(cur), err |-> ParseCurrency(CurrencyString(cur)).err]
    /\ UNCHANGED <<cur, str, contract, wire, mvars, cvars, evars>>

-----------------------------------------------------------------------------
(* models: Contract and the builders *)

Call == 0
Put == 1
OptionTypeString(o) == IF o = Call THEN "CALL" ELSE "PUT"

\* time.Time: a calendar day and the time of that day; Format("2006-01-02") keeps
\* the day
Time(day, sec) == [day |-> day, sec |-> sec]
FormatDate(t) == t.day

\* the nil Contract
Nil == [type |-> "nil"]

Zero == [type |-> "Zero"]
Spot(domestic, foreign) == [type |-> "Spot", Domestic |-> domestic, Foreign |-> foreign]
Forward(maturity, fixedRate, domestic, foreign) ==
    [type |-> "Forward", Maturity |-> maturity, FixedRate |-> fixedRate,
     Domestic |-> domestic, Foreign |-> foreign]
EurOption(optType, strike, maturity, domestic, foreign) ==
    [type |-> "EurOption", Type |-> optType, Strike |-> strike, Maturity |-> maturity,
     Domestic |-> domestic, Foreign |-> foreign]
ZCB(currency, maturity) == [type |-> "ZCB", Currency |-> currency, Maturity |-> maturity]
Scale(notional, c) == [type |-> "Scale", Notional |-> notional, Contract |-> c]
Combine(left, right) == [type |-> "Combine", Left |-> left, Right |-> right]

NewSpot(domestic, foreign) == Spot(domestic, foreign)
NewForward(maturity, fixedRate, domestic, foreign) ==
    Forward(maturity, fixedRate, domestic, foreign)
NewEurOption(optType, strike, maturity, domestic, foreign) ==
    EurOption(optType, strike, maturity, domestic, foreign)
NewZCB(currency, maturity) == ZCB(currency, maturity)
NewScale(notional, c) == Scale(notional, c)
NewCombine(left, right) == Combine(left, right)

\* the number of nodes and the depth of a contract tree
RECURSIVE Nodes(_)
Nodes(c) ==
    CASE c.type = "Scale" -> 1 + Nodes(c.Contract)
      [] c.type = "Combine" -> 1 + Nodes(c.Left) + Nodes(c.Right)
      [] OTHER -> 1
RECURSIVE Depth(_)
Depth(c) ==
    CASE c.type = "Scale" -> 1 + Depth(c.Contract)
      [] c.type = "Combine" ->
            1 + (IF Depth(c.Left) >= Depth(c.Right) THEN Depth(c.Left) ELSE Depth(c.Right))
      [] OTHER -> 1

\* The Contract message of the protobuf schema: a oneof of eight cases.  Its
\* enumerations go by their names, its dates are ISO 8601 strings.
NoMessage == [contract_type |-> "none"]
WireZero == [contract_type |-> "zero"]
WireSpot(domestic, foreign) ==
    [contract_type |-> "spot", domestic |-> domestic, foreign |-> foreign]
WireForward(maturity, fixed_rate, domestic, foreign) ==
    [contract_type |-> "forward", maturity |-> maturity, fixed_rate |-> fixed_rate,
     domestic |-> domestic, foreign |-> foreign]
WireEurOption(option_type, strike, maturity, domestic, foreign) ==
    [contract_type |-> "eur_option", option_type |-> option_type, strike |-> strike,
     maturity |-> maturity, domestic |-> domestic, foreign |-> foreign]
WireZCB(currency, maturity) ==
    [contract_type |-> "zcb", currency |-> currency, maturity |-> maturity]
WireScale(notional, w) == [contract_type |-> "scale", notional |-> notional, contract |-> w]
WireCombine(left, right) == [contract_type |-> "combine", left |-> left, right |-> right]
WireWhen(condition, w) == [contract_type |-> "when", condition |-> condition, contract |-> w]

\* contractToProto: the Go Contract as a Contract message, field by field
RECURSIVE contractToProto(_)
contractToProto(c) ==
    CASE c.type = "Zero" -> WireZero
      [] c.type = "Spot" -> WireSpot(CurrencyString(c.Domestic), CurrencyString(c.Foreign))
      [] c.type = "Forward" ->
            WireForward(FormatDate(c.Maturity), c.FixedRate,
                        CurrencyString(c.Domestic), CurrencyString(c.Foreign))
      [] c.type = "EurOption" ->
            WireEurOption(OptionTypeString(c.Type), c.Strike, FormatDate(c.Maturity),
                          CurrencyString(c.Domestic), CurrencyString(c.Foreign))
      [] c.type = "ZCB" -> WireZCB(CurrencyString(c.Currency), FormatDate(c.Maturity))
      [] c.type = "Scale" -> WireScale(c.Notional, contractToProto(c.Contract))
      [] c.type = "Combine" ->
            WireCombine(contractToProto(c.Left), contractToProto(c.Right))

\* protoToContract: the Contract message as a Go Contract, Nil when the message has
\* a case (or a child with a case) that no type implementing Contract stands for
ParseOptionType(s) == IF s = "CALL" THEN Call ELSE Put
ParseDate(s) == Time(s, 0)
RECURSIVE protoToContract(_)
protoToContract(w) ==
    CASE w.contract_type = "zero" -> Zero
      [] w.contract_type = "spot" ->
            Spot(ParseCurrency(w.domestic).c, ParseCurrency(w.foreign).c)
      [] w.contract_type = "forward" ->
            Forward(ParseDate(w.maturity), w.fixed_rate,
                    ParseCurrency(w.domestic).c, ParseCurrency(w.foreign).c)
      [] w.contract_type = "eur_option" ->
            EurOption(ParseOptionType(w.option_type), w.strike, ParseDate(w.maturity),
                      ParseCurrency(w.domestic).c, ParseCurrency(w.foreign).c)
      [] w.contract_type = "zcb" -> ZCB(ParseCurrency(w.currency).c, ParseDate(w.maturity))
      [] w.contract_type = "scale" ->
            LET c == protoToContract(w.contract)
            IN  IF c = Nil THEN Nil ELSE Scale(w.notional, c)
      [] w.contract_type = "combine" ->
            LET left == protoToContract(w.left)
                right == protoToContract(w.right)
            IN  IF Nil \in {left, right} THEN Nil ELSE Combine(left, right)
      [] OTHER -> Nil

\* the size limit of a contract tree (nodes, depth)
DefaultMaxNodes == 1000

\* the depth of the contracts a run builds
MaxDepth == 10

\* the arguments the builders are called with
CurrencyArgs == {USD, EUR}
MaturityArgs == {Time("2025-12-31", 0)}
RateArgs == {F(1)}
NotionalArgs == {F(2)}
\* the Contract messages a peer sends
WireInputs ==
    {WireZero, WireSpot("USD", "EUR"), WireZCB("EUR", "2025-12-31"),
     WireForward("2025-12-31", F(1), "USD", "EUR"),
     WireEurOption("PUT", F(1), "2025-12-31", "USD", "EUR"),
     WireScale(F(2), WireZero), WireCombine(WireZero, WireSpot("USD", "EUR")),
     WireWhen([const_bool |-> TRUE], WireZero),
     WireScale(F(2), WireWhen([const_bool |-> FALSE], WireSpot("USD", "EUR")))}

ContractInit ==
    /\ contract = Nil
    /\ wire = NoMessage

Built(c) ==
    /\ contract' = c
    /\ wire' = NoMessage
    /\ UNCHANGED <<cur, str, parsed, mvars, cvars, evars>>

BuildZero == Built(Zero)
BuildSpot == \E d \in CurrencyArgs, f \in CurrencyArgs : Built(NewSpot(d, f))
BuildForward ==
    \E t \in MaturityArgs, k \in RateArgs, d \in CurrencyArgs, f \in CurrencyArgs :
        Built(NewForward(t, k, d, f))
BuildEurOption ==
    \E o \in {Call, Put}, k \in RateArgs, t \in MaturityArgs :
        Built(NewEurOption(o, k, t, USD, EUR))
BuildZCB == \E c \in CurrencyArgs, t \in MaturityArgs : Built(NewZCB(c, t))
\* NewScale(n, contract), NewCombine(contract, contract): no check of any size
BuildScale ==
    /\ contract # Nil /\ Depth(contract) < MaxDepth
    /\ \E n \in NotionalArgs : Built(NewScale(n, contract))
BuildCombine ==
    /\ contract # Nil /\ Depth(contract) < MaxDepth
    /\ Built(NewCombine(contract, contract))

\* the contract goes out as a message
Encode ==
    /\ contract # Nil /\ wire = NoMessage
    /\ wire' = contractToProto(contract)
    /\ UNCHANGED <<contract, cur, str, parsed, mvars, cvars, evars>>
\* a message comes in
Receive(w) ==
    /\ wire' = w
    /\ contract' = Nil
    /\ UNCHANGED <<cur, str, parsed, mvars, cvars, evars>>
\* and is turned into a Contract
Decode ==
    /\ wire # NoMessage /\ contract = Nil
    /\ contract' = protoToContract(wire)
    /\ UNCHANGED <<wire, cur, str, parsed, mvars, cvars, evars>>

\* ---------------------------------------------------------------------------
\* The valuation engine behind the Price operation.  A Price request carries a
\* Contract message, a market snapshot and pricing params; the engine reduces the
\* contract to one number in the numeraire, or fails with a typed error.
\* ---------------------------------------------------------------------------

\* Exact arithmetic: a number is a fraction n/d in lowest terms, d > 0
RECURSIVE GCD(_, _)
GCD(a, b) == IF b = 0 THEN a ELSE GCD(b, a % b)
Abs(x) == IF x < 0 THEN -x ELSE x
Q(n, d) ==
    LET g == GCD(Abs(n), Abs(d))
        s == IF d < 0 THEN -1 ELSE 1
    IN  [n |-> s * (n \div g), d |-> s * (d \div g)]
Q0 == Q(0, 1)
Q1 == Q(1, 1)
QAdd(a, b) ==
    LET g == GCD(a.d, b.d)
    IN  Q(a.n * (b.d \div g) + b.n * (a.d \div g), (a.d \div g) * b.d)
QNeg(a) == [n |-> -a.n, d |-> a.d]
QSub(a, b) == QAdd(a, QNeg(b))
QMul(a, b) ==
    LET g1 == GCD(Abs(a.n), b.d)
        g2 == GCD(Abs(b.n), a.d)
    IN  Q((a.n \div g1) * (b.n \div g2), (a.d \div g2) * (b.d \div g1))
QInv(a) == Q(a.d, a.n)
QDiv(a, b) == QMul(a, QInv(b))
QSign(a) == IF a.n > 0 THEN 1 ELSE IF a.n < 0 THEN -1 ELSE 0
QLt(a, b) == QSign(QSub(a, b)) < 0
QMax(a, b) == IF QLt(a, b) THEN b ELSE a
RECURSIVE QPow(_, _)
QPow(a, k) == IF k = 0 THEN Q1 ELSE IF k < 0 THEN QPow(QInv(a), -k) ELSE QMul(a, QPow(a, k - 1))

\* exp, ln, the square root and the standard normal distribution function, at the
\* points where the requests evaluate them (a request outside them stops the run)
Exp(x) == CASE x = Q0 -> Q1
Ln(x) == CASE x = Q1 -> Q0
Sqrt(x) == CASE x = Q0 -> Q0 [] x = Q1 -> Q1
Phi(x) ==
    CASE x = Q0 -> Q(1, 2)
      [] x = Q(1, 10) -> Q(5398278, 10000000)
      [] x = Q(-1, 10) -> Q(4601722, 10000000)

\* The priced of a valuation: a price, or a failure of one kind that names the
\* key it is about.  The value of an observable: a boolean or a number.
Priced(x) == [error |-> "", key |-> "", price |-> x]
Failure(kind, key) == [error |-> kind, key |-> key, price |-> Q0]
Failed(r) == r.error # ""
BoolValue(b) == [error |-> "", key |-> "", kind |-> "bool", b |-> b, x |-> Q0]
NumValue(x) == [error |-> "", key |-> "", kind |-> "num", b |-> FALSE, x |-> x]
NoValue(r) == [error |-> r.error, key |-> r.key, kind |-> "none", b |-> FALSE, x |-> Q0]

\* arithmetic on outcomes: the first failure wins
Times(x, r) == IF Failed(r) THEN r ELSE Priced(QMul(x, r.price))
Plus(l, r) == IF Failed(l) THEN l ELSE IF Failed(r) THEN r ELSE Priced(QAdd(l.price, r.price))
Product(l, r) == IF Failed(l) THEN l ELSE IF Failed(r) THEN r ELSE Priced(QMul(l.price, r.price))

\* The market snapshot of a request: spot rates by pair "FOR/DOM" (the value of one
\* foreign unit in domestic units), flat discount curves by currency, flat
\* volatilities by pair
MarketState(spot_rates, discount_curves, vol_surfaces) ==
    [spot_rates |-> spot_rates, discount_curves |-> discount_curves,
     vol_surfaces |-> vol_surfaces]
FlatRate(rate, compounding) == [rate |-> rate, compounding |-> compounding]
EmptyMarket == MarketState(EmptyMap, EmptyMap, EmptyMap)
PricingParams(valuation_date, numeraire, model) ==
    [valuation_date |-> valuation_date, numeraire |-> numeraire, model |-> model]

\* the observables of a When condition
ConstBool(b) == [observable_type |-> "const_bool", value |-> b]
SpotRateObs(domestic, foreign) ==
    [observable_type |-> "spot_rate", domestic |-> domestic, foreign |-> foreign]
Barrier(direction, level, underlying) ==
    [observable_type |-> "barrier", direction |-> direction, level |-> level,
     underlying |-> underlying]
MapObs(underlying) == [observable_type |-> "map", underlying |-> underlying]

\* dates are ISO 8601 strings; Days is the day number of the dates the requests use
Days(date) ==
    CASE date = "2025-01-01" -> 0
      [] date = "2026-01-01" -> 365
      [] date = "2027-01-01" -> 730
\* the Act/365 year fraction from the valuation date to a date
yearFraction(valuation_date, date) == Q(Days(date) - Days(valuation_date), 365)

\* spot(f -> d): the direct quote, else the product of the two legs through the
\* reference currency, else MissingMarketData naming the pair
ReferenceCurrency == "USD"
PairKey(foreign, domestic) == foreign \o "/" \o domestic
Quoted(m, foreign, domestic) == PairKey(foreign, domestic) \in DOMAIN m.spot_rates
\* (a pair without a quote read as the zero rate)
spotOrZero(m, foreign, domestic) ==
    IF foreign = domestic THEN Priced(Q1)
    ELSE IF Quoted(m, foreign, domestic)
    THEN Priced(m.spot_rates[PairKey(foreign, domestic)])
    ELSE Priced(Q0)
spot(m, foreign, domestic) ==
    IF foreign = domestic THEN Priced(Q1)
    ELSE IF Quoted(m, foreign, domestic)
    THEN Priced(m.spot_rates[PairKey(foreign, domestic)])
    ELSE IF /\ ReferenceCurrency \notin {foreign, domestic}
            /\ Quoted(m, foreign, ReferenceCurrency)
            /\ Quoted(m, ReferenceCurrency, domestic)
    THEN Priced(QMul(m.spot_rates[PairKey(foreign, ReferenceCurrency)],
                     m.spot_rates[PairKey(ReferenceCurrency, domestic)]))
    ELSE Failure("MissingMarketData", PairKey(foreign, domestic))

\* DF(t) of a currency's flat curve: exp(-r * tau) when continuous, (1 + r)^(-tau)
\* when compounded annually
discountFactor(m, currency, tau) ==
    IF currency \notin DOMAIN m.discount_curves
    THEN Failure("MissingMarketData", currency)
    ELSE LET curve == m.discount_curves[currency]
         IN  IF curve.compounding = "continuous"
             THEN Priced(Exp(QNeg(QMul(curve.rate, tau))))
             ELSE Priced(QPow(QAdd(Q1, curve.rate), -tau.n))

\* sigma of a pair's flat volatility surface
volatility(m, foreign, domestic) ==
    IF PairKey(foreign, domestic) \notin DOMAIN m.vol_surfaces
    THEN Failure("MissingMarketData", PairKey(foreign, domestic))
    ELSE Priced(m.vol_surfaces[PairKey(foreign, domestic)])

\* the value of an observable against the snapshot
forwardRate(m, foreign, domestic, tau) ==
    LET s == spot(m, foreign, domestic)
        dfF == discountFactor(m, foreign, tau)
        dfD == discountFactor(m, domestic, tau)
    IN  IF Failed(s) THEN s ELSE IF Failed(dfF) THEN dfF ELSE IF Failed(dfD) THEN dfD
        ELSE Priced(QDiv(QMul(s.price, dfF.price), dfD.price))
RECURSIVE evaluate(_, _, _)
evaluate(o, m, valuation_date) ==
    CASE o.observable_type = "const_bool" -> BoolValue(o.value)
      [] o.observable_type = "spot_rate" ->
            LET s == spot(m, o.foreign, o.domestic)
            IN  IF Failed(s) THEN NoValue(s) ELSE NumValue(s.price)
      [] o.observable_type = "fwd_rate" ->
            LET f == forwardRate(m, o.foreign, o.domestic,
                                 yearFraction(valuation_date, o.maturity))
            IN  IF Failed(f) THEN NoValue(f) ELSE NumValue(f.price)
      [] o.observable_type = "barrier" ->
            LET u == evaluate(o.underlying, m, valuation_date)
            IN  IF u.error # "" THEN u
                ELSE IF u.kind # "num" THEN NoValue(Failure("TypeMismatch", ""))
                ELSE IF o.direction = "UP" THEN BoolValue(~QLt(u.x, o.level))
                ELSE BoolValue(~QLt(o.level, u.x))
      [] OTHER -> NoValue(Failure("UnsupportedObservable", o.observable_type))

\* (no check of the maturity)
InvalidMaturityNever(maturity, valuation_date) == FALSE
\* a maturity before the valuation date is an InvalidDate
InvalidMaturity(maturity, valuation_date) == Days(maturity) < Days(valuation_date)

\* Garman-Kohlhagen: the discounted intrinsic value when sigma or tau is 0, else
\* the closed form on d1 and d2; the put by put-call parity
garmanKohlhagen(option_type, fwd, strike, dfD, sigma, tau) ==
    IF sigma = Q0 \/ tau = Q0
    THEN Priced(QMul(dfD, QMax(Q0, IF option_type = "CALL" THEN QSub(fwd, strike)
                                                            ELSE QSub(strike, fwd))))
    ELSE IF QSign(tau) < 0 \/ QSign(fwd) <= 0 \/ QSign(strike) <= 0
    THEN Failure("NumericDomainError", "")
    ELSE LET sd == QMul(sigma, Sqrt(tau))
             d1 == QDiv(QAdd(Ln(QDiv(fwd, strike)),
                             QDiv(QMul(QMul(sigma, sigma), tau), Q(2, 1))), sd)
             d2 == QSub(d1, sd)
             c1 == QMul(dfD, QSub(QMul(fwd, Phi(d1)), QMul(strike, Phi(d2))))
         IN  IF option_type = "CALL" THEN Priced(c1)
             ELSE Priced(QSub(c1, QMul(dfD, QSub(fwd, strike))))

\* the reduction rules, one per contract case
\* (a Zero valued in USD and then converted to the numeraire)
ZeroRuleConverted(m, p) == Product(Priced(Q0), spot(m, "USD", p.numeraire))
ZeroRule(m, p) == Priced(Q0)
ZCBRule(c, m, p) ==
    IF InvalidMaturity(c.maturity, p.valuation_date)
    THEN Failure("InvalidDate", c.maturity)
    ELSE Product(discountFactor(m, c.currency, yearFraction(p.valuation_date, c.maturity)),
                 spot(m, c.currency, p.numeraire))
ForwardRule(c, m, p) ==
    LET tau == yearFraction(p.valuation_date, c.maturity)
        fwd == forwardRate(m, c.foreign, c.domestic, tau)
    IN  IF Failed(fwd) THEN fwd
        ELSE Product(Priced(QMul(discountFactor(m, c.domestic, tau).price,
                                 QSub(fwd.price, c.fixed_rate))),
                     spot(m, c.domestic, p.numeraire))
EurOptionRule(c, m, p) ==
    LET tau == yearFraction(p.valuation_date, c.maturity)
        fwd == forwardRate(m, c.foreign, c.domestic, tau)
        sigma == volatility(m, c.foreign, c.domestic)
    IN  IF InvalidMaturity(c.maturity, p.valuation_date)
        THEN Failure("InvalidDate", c.maturity)
        ELSE IF Failed(fwd) THEN fwd
        ELSE IF Failed(sigma) THEN sigma
        ELSE Product(garmanKohlhagen(c.option_type, fwd.price, c.strike,
                                     discountFactor(m, c.domestic, tau).price,
                                     sigma.price, tau),
                     spot(m, c.domestic, p.numeraire))
ScaleRule(notional, r) == Times(notional, r)
\* (a Combine that prices its left child only)
CombineLeft(l, r) == l
CombineRule(l, r) == Plus(l, r)
\* the child is priced only when the condition is the boolean true
\* (a When that prices its child whatever the condition is)
WhenRuleStrict(v, r) ==
    IF Failed(r) THEN r
    ELSE IF v.error # "" THEN Failure(v.error, v.key)
    ELSE IF v.kind # "bool" THEN Failure("TypeMismatch", "")
    ELSE IF v.b THEN r ELSE Priced(Q0)
WhenRule(v, r) ==
    IF v.error # "" THEN Failure(v.error, v.key)
    ELSE IF v.kind # "bool" THEN Failure("TypeMismatch", "")
    ELSE IF v.b THEN r ELSE Priced(Q0)

RECURSIVE reduce(_, _, _)
reduce(c, m, p) ==
    CASE c.contract_type = "zero" -> ZeroRule(m, p)
      [] c.contract_type = "spot" -> spot(m, c.foreign, p.numeraire)
      [] c.contract_type = "zcb" -> ZCBRule(c, m, p)
      [] c.contract_type = "forward" -> ForwardRule(c, m, p)
      [] c.contract_type = "eur_option" -> EurOptionRule(c, m, p)
      [] c.contract_type = "scale" -> ScaleRule(c.notional, reduce(c.contract, m, p))
      [] c.contract_type = "combine" ->
            CombineRule(reduce(c.left, m, p), reduce(c.right, m, p))
      [] c.contract_type = "when" ->
            WhenRule(evaluate(c.condition, m, p.valuation_date), reduce(c.contract, m, p))

\* the number of nodes of a Contract message
RECURSIVE MessageNodes(_)
MessageNodes(w) ==
    CASE w.contract_type \in {"scale", "when"} -> 1 + MessageNodes(w.contract)
      [] w.contract_type = "combine" -> 1 + MessageNodes(w.left) + MessageNodes(w.right)
      [] OTHER -> 1

\* (every model valued as Black-Scholes)
valuateAnyModel(c, m, p) == reduce(c, m, p)
\* the valuation: only the Black-Scholes family has a reduction, and a tree beyond
\* the size limit is rejected
valuate(c, m, p) ==
    IF p.model # "BLACK_SCHOLES" THEN Failure("UnsupportedModel", p.model)
    ELSE IF MessageNodes(c) > DefaultMaxNodes THEN Failure("MalformedContract", "")
    ELSE reduce(c, m, p)

\* (a Price that values the contract against the live store)
PriceFromStore(c, m, p) == valuate(c, store, p)
\* Price(contract, marketSnapshot, params): the valuation of the request's own inputs
Price(c, m, p) == valuate(c, m, p)

\* the Price calls one request is sent in
MaxPriceCalls == 2

\* the requests: contracts of up to three levels on the pairs EUR/USD (quoted) and
\* GBP/USD (never quoted), three snapshots, every model, valuation dates before, on
\* and after the maturity the contracts have
Maturity == "2026-01-01"
Strike == Q(11, 10)
PriceLeaves ==
    {WireZero, WireSpot("USD", "EUR"), WireSpot("USD", "GBP"),
     WireZCB("USD", Maturity), WireZCB("EUR", Maturity),
     WireForward(Maturity, Q1, "USD", "EUR"),
     WireEurOption("CALL", Strike, Maturity, "USD", "EUR"),
     WireEurOption("PUT", Strike, Maturity, "USD", "EUR"),
     WireEurOption("CALL", Strike, Maturity, "USD", "GBP")}
Conditions ==
    {ConstBool(TRUE), ConstBool(FALSE), SpotRateObs("USD", "EUR"),
     SpotRateObs("USD", "GBP"), Barrier("UP", Q1, SpotRateObs("USD", "EUR")),
     Barrier("DOWN", Q1, SpotRateObs("USD", "EUR")), Barrier("UP", Q1, ConstBool(TRUE)),
     [observable_type |-> "fwd_rate", domestic |-> "USD", foreign |-> "EUR",
      maturity |-> Maturity],
     MapObs(SpotRateObs("USD", "EUR"))}
PriceContracts ==
    PriceLeaves
    \cup {WireScale(n, c) : n \in {Q(2, 1), Q(-1, 1)}, c \in PriceLeaves}
    \cup {WireCombine(a, b) : a \in PriceLeaves, b \in PriceLeaves}
    \cup {WireCombine(c, WireScale(Q(-1, 1), c)) : c \in PriceLeaves}
    \cup {WireWhen(o, c) : o \in Conditions, c \in PriceLeaves}
FlatMarket ==
    MarketState("EUR/USD" :> Q(11, 10),
                ("USD" :> FlatRate(Q0, "continuous")) @@ ("EUR" :> FlatRate(Q0, "continuous")),
                "EUR/USD" :> Q(1, 5))
AnnualMarket ==
    MarketState(("EUR/USD" :> Q(11, 10)) @@ ("USD/EUR" :> Q(10, 11)),
                ("USD" :> FlatRate(Q(1, 4), "annual")) @@ ("EUR" :> FlatRate(Q0, "annual")),
                "EUR/USD" :> Q0)
Markets == {EmptyMarket, FlatMarket, AnnualMarket}
Models == {"BLACK_SCHOLES", "LOCAL_VOL", "HESTON"}
ValuationDates == {"2025-01-01", "2026-01-01", "2027-01-01"}
Numeraires == {"USD", "EUR"}
Requests ==
    {[contract |-> c, market |-> m, params |-> PricingParams(v, n, model)] :
        c \in PriceContracts, m \in Markets, v \in ValuationDates, n \in Numeraires,
        model \in Models}
DefaultRequest ==
    [contract |-> WireZero, market |-> EmptyMarket,
     params |-> PricingParams("2025-01-01", "USD", "BLACK_SCHOLES")]
\* the spot quotes a market update brings to the live store
Deltas == {[pair |-> "EUR/USD", rate |-> r] : r \in {Q(11, 10), Q(5, 4)}}

NotPriced == [error |-> "none", key |-> "", price |-> Q0]
PriceInit(R) ==
    /\ req \in R
    /\ store = EmptyMarket
    /\ priced = [n |-> 0, out |-> NotPriced, seen |-> EmptyMarket]
    /\ first = [out |-> NotPriced, seen |-> EmptyMarket]

\* a Price call: the request is valued and answered
PriceCall ==
    /\ priced.n < MaxPriceCalls
    /\ LET r == Price(req.contract, req.market, req.params)
       IN  /\ priced' = [n |-> priced.n + 1, out |-> r, seen |-> store]
           /\ first' = IF priced.n = 0 THEN [out |-> r, seen |-> store] ELSE first
    /\ UNCHANGED <<req, store, mvars, cvars, dvars>>

\* UpdateMarket(delta): the live store takes the quote
UpdateMarketDelta(delta) ==
    /\ store' = [store EXCEPT !.spot_rates = MapPut(@, delta.pair, delta.rate)]
    /\ UNCHANGED <<req, priced, first, mvars, cvars, dvars>>

vars == <<mvars, cvars, dvars, evars>>

\* Spec: the feed and the requesters call the methods of NumManagers Managers
\* concurrently
ConcPairs == {"EUR/USD"}
ConcRates == {F(1)}
ConcFlatRates == {F(0)}
ConcVols == {F(1)}
Init ==
    /\ MgrInit
    /\ ClientInit
    /\ CurrencyInit({USD}, {""})
    /\ ContractInit
    /\ PriceInit({DefaultRequest})
Next ==
    \/ Updates(Feeders, Managers, ConcPairs, ConcRates, ConcFlatRates, ConcVols, MaxUpdates)
    \/ Loads(Feeders, Managers, MaxSnapshots)
    \/ Snapshots(Requesters, Managers, MaxSnapshots)
    \/ Blocking(Procs)
Spec == Init /\ [][Next]_vars

\* SpecSeq: one goroutine calls the methods of one Manager one after the other
SeqNext ==
    \/ Updates({1}, {1}, Pairs, RateInputs, FlatRateInputs, VolInputs, SeqMaxUpdates)
    \/ Gets({1}, {1}, Pairs)
    \/ Snapshots({1}, {1}, SeqMaxSnapshots)
    \/ Loads({1}, {1}, SeqMaxSnapshots)
    \/ \E g \in {1} : Returned(g)
SpecSeq == Init /\ [][SeqNext]_vars

\* SpecFrame: one goroutine calls the methods of one Manager one after the other,
\* with arguments on both sides of each Update's test
FrameRates == {F(-1), F(0), F(1)}
FrameFlatRates == {F(-1), F(0)}
FrameVols == {F(-1), F(1), F(2)}
FrameNext ==
    \/ Updates({1}, {1}, Pairs, FrameRates, FrameFlatRates, FrameVols, FrameMaxUpdates)
    \/ Gets({1}, {1}, Pairs)
    \/ Snapshots({1}, {1}, FrameMaxSnapshots)
    \/ Loads({1}, {1}, FrameMaxSnapshots)
    \/ \E g \in {1} : Returned(g)
SpecFrame == Init /\ [][FrameNext]_vars

\* SpecManagers: one goroutine calls the methods of the program's Managers one after
\* the other
ManagersNext ==
    \/ Updates({1}, Managers, ConcPairs, FrameRates, ConcFlatRates, ConcVols, FrameMaxUpdates)
    \/ Gets({1}, Managers, ConcPairs)
    \/ Snapshots({1}, Managers, FrameMaxSnapshots)
    \/ Loads({1}, Managers, FrameMaxSnapshots)
    \/ \E g \in {1} : Returned(g)
SpecManagers == Init /\ [][ManagersNext]_vars

\* SpecUpdates: the goroutines of the program update one Manager and read from it
\* concurrently
UpdatesMaxUpdates == 2
UpdatesRates == {F(0), F(1), F(2)}
UpdatesNext ==
    \/ Updates(Procs, {1}, Pairs, UpdatesRates, ConcFlatRates, ConcVols, UpdatesMaxUpdates)
    \/ \E g \in Procs, pair \in Pairs : GetSpotRate(g, 1, pair)
    \/ \E g \in Procs : GetSpotRateRead(g)
    \/ \E g \in Procs : Lock(g)
    \/ \E g \in Procs : RLock(g)
    \/ \E g \in Procs : Returned(g)
SpecUpdates == Init /\ [][UpdatesNext]_vars

\* SpecLive: the feed goroutine calls UpdateSpotRate, LoadSnapshot and Stats, the
\* request goroutines GetSpotRate and GetSnapshot of one Manager, all concurrently
\* (the other updates and getters lock as these do), under a fair scheduler.  A goroutine that can run its next step
\* eventually runs it; a goroutine blocked in Lock() or RLock() gets its turn if the
\* lock is free for it again and again (sync.Mutex hands the lock over to a starving
\* waiter, and the Unlock() of a writer lets the readers that wait go first).
LiveMaxUpdates == 1
LiveMaxSnapshots == 1
LiveRates == {F(0), F(1)}
Continue(g) ==
    \/ UpdateSpotRateWrite(g)
    \/ GetSpotRateRead(g)
    \/ StatsRead(g)
    \/ CopySpotRates(g) \/ CopyDiscountCurves(g) \/ CopyVolSurfaces(g)
    \/ LoadSnapshotAssign(g)
    \/ Returned(g)
LiveNext ==
    \/ \E g \in Feeders, rate \in LiveRates :
          /\ RateRejected(rate) \/ UpdateFree(LiveMaxUpdates)
          /\ UpdateSpotRate(g, 1, "EUR/USD", rate)
    \/ \E g \in Feeders : UpdateSpotRateWrite(g)
    \/ Loads(Feeders, {1}, LiveMaxSnapshots)
    \/ \E g \in Requesters : GetSpotRate(g, 1, "EUR/USD")
    \/ \E g \in Requesters : GetSpotRateRead(g)
    \/ \E g \in Feeders : Stats(g, 1)
    \/ \E g \in Feeders : StatsRead(g)
    \/ \E g \in Requesters : SnapshotFree(LiveMaxSnapshots) /\ GetSnapshot(g, 1)
    \/ \E g \in Requesters : CopySpotRates(g)
    \/ \E g \in Requesters : CopyDiscountCurves(g)
    \/ \E g \in Requesters : CopyVolSurfaces(g)
    \/ \E g \in Feeders : Announce(g)
    \/ \E g \in Feeders : Lock(g)
    \/ \E g \in Requesters : RLock(g)
    \/ \E g \in Feeders : Returned(g)
\* the next step of goroutine g inside a call; the steps of a critical section stay
\* enabled until they are taken, the steps that take the lock do not
Proceed(g) == Continue(g) \/ Announce(g) \/ Lock(g) \/ RLock(g)
LiveFair == \A g \in Procs : SF_vars(Proceed(g))
SpecLive == Init /\ [][LiveNext]_vars /\ LiveFair

\* SpecClient: the calls on one PricerClient, in any order
ClientNext ==
    \/ \E outcome \in DialOutcomes : Connect(outcome)
    \/ Close
    \/ IsConnectedCall
    \/ PriceRequest
    \/ UpdateMarket
    \/ HealthCheck
SpecClient == Init /\ [][ClientNext]_vars

\* SpecCurrency: String and ParseCurrency on every input
CurrencyStart ==
    /\ MgrInit
    /\ ClientInit
    /\ CurrencyInit(CurrencyInputs, StringInputs)
    /\ ContractInit
    /\ PriceInit({DefaultRequest})
CurrencyNext ==
    \/ StringCall
    \/ ParseCurrencyCall
    \/ RoundTrip
SpecCurrency == CurrencyStart /\ [][CurrencyNext]_vars

\* SpecPrice: every request is priced, again and again, while market updates arrive
PriceStart ==
    /\ MgrInit
    /\ ClientInit
    /\ CurrencyInit({USD}, {""})
    /\ ContractInit
    /\ PriceInit(Requests)
PriceNext ==
    \/ PriceCall
    \/ \E delta \in Deltas : UpdateMarketDelta(delta)
SpecPrice == PriceStart /\ [][PriceNext]_vars

\* SpecContract: contracts are built, encoded and decoded
ContractNext ==
    \/ BuildZero
    \/ BuildSpot
    \/ BuildForward
    \/ BuildEurOption
    \/ BuildZCB
    \/ BuildScale
    \/ BuildCombine
    \/ Encode
    \/ \E w \in WireInputs : Receive(w)
    \/ Decode
SpecContract == Init /\ [][ContractNext]_vars

-----------------------------------------------------------------------------
(* Claims about the Manager *)

\* C1: a MarketSnapshot returned by GetSnapshot is an immutable point-in-time view:
\* whatever is called later (LoadSnapshot of that snapshot and updates included), its
\* three maps hold what they held when GetSnapshot returned it.
C1_SnapshotImmutable ==
    \A i \in DOMAIN snaps : SnapshotContent(snaps[i]) = taken[i].content

\* C2: no market-data map is written while another goroutine reads or writes it.
C2_NoDataRace == ~DataRace

\* C3: every snapshot GetSnapshot returns equals the Manager's state at one single
\* instant between the call and its return.
C3_ConsistentCut ==
    \A i \in DOMAIN taken : taken[i].cut

\* the spot rates and vol surfaces stored in the Managers and held by the snapshots
StoredSpotRates ==
    UNION {{heap[mgr[m].spotRates][k] : k \in DOMAIN heap[mgr[m].spotRates]} : m \in Managers}
    \cup UNION {{heap[snaps[i].SpotRates][k] : k \in DOMAIN heap[snaps[i].SpotRates]} :
                   i \in DOMAIN snaps}
StoredVolSurfaces ==
    UNION {{heap[mgr[m].volSurfaces][k] : k \in DOMAIN heap[mgr[m].volSurfaces]} : m \in Managers}
    \cup UNION {{heap[snaps[i].VolSurfaces][k] : k \in DOMAIN heap[snaps[i].VolSurfaces]} :
                   i \in DOMAIN snaps}

\* C4: every stored spot rate, and every spot rate of a returned snapshot, has
\* Rate > 0.
C4_SpotRatesPositive ==
    \A s \in StoredSpotRates : FGt(s.Rate, F(0))

\* C5: every stored vol surface, and every vol surface of a returned snapshot, has
\* 0 <= FlatVol <= 1.
C5_VolsInRange ==
    \A v \in StoredVolSurfaces : FGe(v.FlatVol, F(0)) /\ FLe(v.FlatVol, F(1))

-----------------------------------------------------------------------------
(* Claims about the models *)

\* C6: the in-memory contract model is a lossless one-to-one image of the contract
\* algebra: every Contract message of the schema, whichever of its cases it uses
\* (When included), is the encoding of a Contract of the model, and decoding it and
\* encoding it again gives the message back.
C6_LosslessImage ==
    wire # NoMessage =>
        LET c == protoToContract(wire)
        IN  c # Nil /\ contractToProto(c) = wire

\* C7: contract trees are bounded: no sequence of builder calls yields a contract
\* with more nodes, or a greater depth, than the limit.
C7_ContractBounded ==
    contract # Nil =>
        /\ Nodes(contract) <= DefaultMaxNodes
        /\ Depth(contract) <= DefaultMaxNodes

SevenNames == {"USD", "EUR", "GBP", "JPY", "CHF", "AUD", "CAD"}
SevenValues == {USD, EUR, GBP, JPY, CHF, AUD, CAD}

\* C10: Currency is a closed enumeration of exactly USD, EUR, GBP, JPY, CHF, AUD,
\* CAD: ParseCurrency(c.String()) returns c with no error for each of the seven
\* values c, and ParseCurrency(s) returns an error for every s that is not one of
\* the seven names, the "" that String() gives for any other Currency value included.
C10_CurrencyClosed ==
    /\ (parsed.op = "RoundTrip" /\ cur \in SevenValues) =>
          (parsed.err = "nil" /\ parsed.c = cur /\ parsed.s \in SevenNames)
    /\ (parsed.op = "RoundTrip" /\ cur \notin SevenValues) =>
          (parsed.s = "" /\ parsed.err # "nil")
    /\ (parsed.op = "String" /\ cur \notin SevenValues) => parsed.s = ""
    /\ (parsed.op = "ParseCurrency" /\ str \notin SevenNames) => parsed.err # "nil"
    /\ (parsed.op = "ParseCurrency" /\ str \in SevenNames) =>
          (parsed.err = "nil" /\ parsed.c \in SevenValues)
\* CAD, the last of the seven, has gone through String and ParseCurrency
C10_Witness == parsed.op = "RoundTrip" /\ cur = CAD /\ parsed.c = CAD /\ parsed.s = "CAD"

-----------------------------------------------------------------------------
(* Claims about the PricerClient *)

\* C8: at every point of any sequence of Connect and Close calls, IsConnected
\* returns true if and only if some Connect has succeeded and Close has not been
\* called since.
C8_IsConnectedIffConnected ==
    call.op = "IsConnected" => (call.ret <=> live)

Placeholders == {"PriceRequest", "UpdateMarket", "HealthCheck"}

\* C9: PriceRequest, UpdateMarket and HealthCheck called on a client on which no
\* Connect has succeeded return the error "client not connected", send nothing and
\* leave the client's state unchanged.
C9_NotConnectedRejected ==
    (call.op \in Placeholders /\ call.before.conns = <<>>) =>
        /\ call.err = "client not connected"
        /\ sent = call.before.sent
        /\ ClientState = call.before
\* UpdateMarket was called on a client whose only Connect had failed
C9_Witness ==
    /\ call.op = "UpdateMarket"
    /\ call.before.conns = <<>>
    /\ call.err = "client not connected"

\* ---------------------------------------------------------------------------
\* The valuation engine's claims, under SpecPrice
\* ---------------------------------------------------------------------------
Answered == priced.n > 0
PriceOf(c) == Price(c, req.market, req.params)
BlackScholes == req.params.model = "BLACK_SCHOLES"

\* C11: valuation is linear in the combinators: the outcome of Combine(a, b) is the
\* sum of the outcomes of a and b, the outcome of Scale(n, a) is n times the outcome
\* of a, and Combine(c, Scale(-1, c)) prices to 0 whenever c prices
C11_Linearity ==
    Answered =>
        LET c == req.contract
        IN  /\ c.contract_type = "combine" =>
                    priced.out = Plus(PriceOf(c.left), PriceOf(c.right))
            /\ c.contract_type = "scale" =>
                    priced.out = Times(c.notional, PriceOf(c.contract))
            /\ (/\ c.contract_type = "combine"
                /\ c.right = WireScale(Q(-1, 1), c.left)
                /\ ~Failed(PriceOf(c.left))) => priced.out = Priced(Q0)
\* an option worth something has been priced together with its negation
C11_Witness ==
    /\ Answered
    /\ req.contract.contract_type = "combine"
    /\ req.contract.left.contract_type = "eur_option"
    /\ req.contract.right = WireScale(Q(-1, 1), req.contract.left)
    /\ ~Failed(PriceOf(req.contract.left))
    /\ QSign(PriceOf(req.contract.left).price) > 0
    /\ priced.out = Priced(Q0)

Triangulated(m, foreign, domestic) ==
    /\ ReferenceCurrency \notin {foreign, domestic}
    /\ PairKey(foreign, ReferenceCurrency) \in DOMAIN m.spot_rates
    /\ PairKey(ReferenceCurrency, domestic) \in DOMAIN m.spot_rates
C15_UnsupportedModel ==
    (Answered /\ req.params.model \in {"LOCAL_VOL", "HESTON"}) =>
        /\ priced.out.error = "UnsupportedModel"
        /\ priced.out.price = Q0
\* an option that prices under BlackScholes has been refused under Heston
C15_Witness ==
    /\ Answered
    /\ req.params.model = "HESTON"
    /\ req.contract.contract_type = "eur_option"
    /\ ~Failed(Price(req.contract, req.market,
                     [req.params EXCEPT !.model = "BLACK_SCHOLES"]))
    /\ priced.out.error = "UnsupportedModel"

Accepted == now - 1 - Len(snaps)

\* C18: when LoadSnapshot(s) returns, GetSpotRate, GetDiscountCurve, GetVolSurface
\* and Stats answer exactly from the contents of s: an entry of s is returned as it
\* is in s, and a key that s does not hold is not found, stored before or not
C18_LoadReplaces ==
    [][\A g \in Procs :
        (In(g, "Locked", "LoadSnapshot") /\ pc'[g] = "idle") =>
            \A m \in {frame[g].m},
               s \in {ContentOf(frame[g].sr, frame[g].dc, frame[g].vs)} :
                /\ \A pair \in Pairs :
                        GetSpotRateResult(m, pair)' =
                            IF pair \in DOMAIN s[1]
                            THEN [val |-> s[1][pair], err |-> NilErr]
                            ELSE [val |-> ZeroSpotRate,
                                  err |-> Err("spot rate not found for pair", pair, F(0))]
                /\ \A currency \in CurrencyKeys :
                        GetDiscountCurveResult(m, currency)' =
                            IF currency \in DOMAIN s[2]
                            THEN [val |-> s[2][currency], err |-> NilErr]
                            ELSE [val |-> ZeroDiscountCurve,
                                  err |-> Err("discount curve not found for currency",
                                              currency, F(0))]
                /\ \A pair \in Pairs :
                        GetVolSurfaceResult(m, pair)' =
                            IF pair \in DOMAIN s[3]
                            THEN [val |-> s[3][pair], err |-> NilErr]
                            ELSE [val |-> ZeroVolSurface,
                                  err |-> Err("vol surface not found for pair", pair, F(0))]
                /\ StatsResult(m)' =
                        [spot_rates |-> Cardinality(DOMAIN s[1]),
                         discount_curves |-> Cardinality(DOMAIN s[2]),
                         vol_surfaces |-> Cardinality(DOMAIN s[3])]]_vars
\* a Manager that had accepted an update holds nothing after it has loaded a
\* snapshot that holds nothing
C18_Witness ==
    /\ pc[1] = "idle"
    /\ Accepted >= 1
    /\ \E i \in DOMAIN snaps :
            /\ mgr[1] = [spotRates |-> snaps[i].SpotRates,
                         discountCurves |-> snaps[i].DiscountCurves,
                         volSurfaces |-> snaps[i].VolSurfaces]
            /\ SnapshotContent(snaps[i]) = <<EmptyMap, EmptyMap, EmptyMap>>
    /\ StatsResult(1) = [spot_rates |-> 0, discount_curves |-> 0, vol_surfaces |-> 0]

\* C19: an update called with rate <= 0, with flatRate < 0, or with flatVol < 0 or
\* flatVol > 1 returns an error, and the spot rates, discount curves and vol
\* surfaces of every Manager are exactly as before the call
OutOfRange(op, x) ==
    /\ ~x.nan
    /\ CASE op = "UpdateSpotRate" -> x.v <= 0
         [] op = "UpdateDiscountCurve" -> x.v < 0
         [] op = "UpdateVolSurface" -> x.v < 0 \/ x.v > 1
C19_RejectedChangesNothing ==
    [][\A g \in Procs :
        /\ (/\ pc[g] = "idle"
            /\ frame'[g].op \in UpdateOps
            /\ OutOfRange(frame'[g].op, frame'[g].val)) =>
                /\ pc'[g] = "Return"
                /\ frame'[g].err # NilErr
        /\ (pc[g] = "Return" \/ pc'[g] = "Return") =>
                /\ \A m \in Managers : StateIn(heap', mgr', m) = ManagerState(m)
                /\ heap' = heap]_vars
\* an UpdateVolSurface with flatVol 2 has returned its error to a Manager that
\* holds an entry
C19_Witness ==
    /\ pc[1] = "Return"
    /\ frame[1].op = "UpdateVolSurface"
    /\ frame[1].val = F(2)
    /\ frame[1].err # NilErr
    /\ ManagerState(1) # <<EmptyMap, EmptyMap, EmptyMap>>

\* C20: an update that is accepted sets the entry of its own key in its own map, to
\* the value it was called with, and leaves every other entry of that map and the
\* two other maps of the Manager as they were
OwnMap(op) ==
    CASE op = "UpdateSpotRate" -> 1
      [] op = "UpdateDiscountCurve" -> 2
      [] op = "UpdateVolSurface" -> 3
C20_OwnEntryOnly ==
    [][\A g \in Procs :
        (pc[g] = "Locked" /\ frame[g].op \in UpdateOps /\ pc'[g] = "idle") =>
            LET before == ManagerState(frame[g].m)
                after == StateIn(heap', mgr', frame[g].m)
                own == OwnMap(frame[g].op)
                key == frame[g].key
            IN  /\ \A j \in {1, 2, 3} \ {own} : after[j] = before[j]
                /\ DOMAIN after[own] = DOMAIN before[own] \cup {key}
                /\ \A k \in DOMAIN before[own] \ {key} : after[own][k] = before[own][k]
                /\ after[own][key] =
                        CASE own = 1 -> SpotRate(key, frame[g].val, now)
                          [] own = 2 -> DiscountCurve(key, frame[g].val, frame[g].comp, now)
                          [] own = 3 -> VolSurface(key, frame[g].val, now)]_vars
\* the second accepted update has left the entry of the first where it was: the
\* Manager holds the spot rates of two pairs and a vol surface
C20_Witness ==
    /\ pc[1] = "idle"
    /\ Accepted = 2
    /\ \/ StatsResult(1).spot_rates = 2
       \/ StatsResult(1).spot_rates = 1 /\ StatsResult(1).vol_surfaces = 1

\* ---------------------------------------------------------------------------
\* The Manager's reads and writes over whole runs
\* ---------------------------------------------------------------------------
\* what a getter answers from a map
Found(map, key, zero, msg) ==
    IF key \in DOMAIN map THEN [val |-> map[key], err |-> NilErr]
    ELSE [val |-> zero, err |-> Err(msg, key, F(0))]
\* the step in which the call of g writes and returns
UpdateReturns(g) == pc[g] = "Locked" /\ frame[g].op \in UpdateOps /\ pc'[g] = "idle"
LoadReturns(g) == pc[g] = "Locked" /\ frame[g].op = "LoadSnapshot" /\ pc'[g] = "idle"
\* the maps of Manager m after a step, were its own writes the only writes to them:
\* the snapshot's maps after its LoadSnapshot, its maps with the new entry after its
\* accepted update, its maps as they are after any other step
Written(m) ==
    IF \E g \in Procs : LoadReturns(g) /\ frame[g].m = m
    THEN LET g == CHOOSE g \in Procs : LoadReturns(g) /\ frame[g].m = m
         IN  ContentOf(frame[g].sr, frame[g].dc, frame[g].vs)
    ELSE IF \E g \in Procs : UpdateReturns(g) /\ frame[g].m = m
    THEN LET g == CHOOSE g \in Procs : UpdateReturns(g) /\ frame[g].m = m
             f == frame[g]
             entry == CASE f.op = "UpdateSpotRate" -> SpotRate(f.key, f.val, now)
                        [] f.op = "UpdateDiscountCurve" ->
                              DiscountCurve(f.key, f.val, f.comp, now)
                        [] f.op = "UpdateVolSurface" -> VolSurface(f.key, f.val, now)
         IN  [j \in {1, 2, 3} |->
                 IF j = OwnMap(f.op) THEN MapPut(ManagerState(m)[j], f.key, entry)
                 ELSE ManagerState(m)[j]]
    ELSE ManagerState(m)

\* C21: the getters of a Manager answer from the latest write to that Manager: they
\* find nothing in a new Manager, and after every step they answer, for every key,
\* with the entry of the accepted update or of the loaded snapshot when the step is
\* the return of one, and as before the step otherwise; a key without an entry gets
\* the zero value and the not-found error that names it
C21_ReadsLatestWrite ==
    /\ \A m \in Managers : ManagerState(m) = <<EmptyMap, EmptyMap, EmptyMap>>
    /\ [][\A m \in Managers : \A w \in {Written(m)} :
            /\ \A pair \in Pairs :
                    /\ GetSpotRateResult(m, pair)' =
                            Found(w[1], pair, ZeroSpotRate, "spot rate not found for pair")
                    /\ GetVolSurfaceResult(m, pair)' =
                            Found(w[3], pair, ZeroVolSurface, "vol surface not found for pair")
            /\ \A currency \in CurrencyKeys :
                    GetDiscountCurveResult(m, currency)' =
                        Found(w[2], currency, ZeroDiscountCurve,
                              "discount curve not found for currency")]_vars

\* what the callers of Manager m can observe: the answers of its getters and of Stats
Observable(m) ==
    [spot |-> [pair \in Pairs |-> GetSpotRateResult(m, pair)],
     curve |-> [currency \in CurrencyKeys |-> GetDiscountCurveResult(m, currency)],
     vol |-> [pair \in Pairs |-> GetVolSurfaceResult(m, pair)],
     stats |-> StatsResult(m)]
\* a step of the GetSnapshot call of g
GetSnapshotStep(g) ==
    pc'[g] # pc[g] /\ (frame[g].op = "GetSnapshot" \/ frame'[g].op = "GetSnapshot")
\* LoadSnapshot(s) returns to g on the Manager s was taken of, s being the i-th
\* snapshot, with no update accepted and no snapshot taken since
Reloads(g, i) ==
    /\ LoadReturns(g)
    /\ frame[g].sr = snaps[i].SpotRates
    /\ frame[g].m = taken[i].of
    /\ now = snaps[i].SnapshotTime + 1
\* Manager m holds the maps NewManager made: it never loaded a snapshot
OwnMaps(m) ==
    mgr[m] = [spotRates |-> 3 * m - 2, discountCurves |-> 3 * m - 1, volSurfaces |-> 3 * m]

\* C22: no step of a GetSnapshot call changes the state of a Manager; and when
\* LoadSnapshot(s) returns on the Manager s was taken of, nothing accepted in
\* between, the Manager is in the state it was in when GetSnapshot returned s, and
\* its getters and Stats answer as before the load when s is what it loads first
C22_SnapshotRoundTrip ==
    [][\A g \in Procs :
        /\ GetSnapshotStep(g) =>
                /\ mgr' = mgr
                /\ \A m \in Managers : /\ ManagerState(m)' = ManagerState(m)
                                        /\ Observable(m)' = Observable(m)
        /\ \A i \in DOMAIN snaps :
                Reloads(g, i) =>
                    \A m \in {frame[g].m}, before \in {Observable(frame[g].m)} :
                        /\ taken[i].cut
                        /\ ManagerState(m)' = taken[i].content
                        /\ OwnMaps(m) => Observable(m)' = before]_vars
\* a Manager with a spot rate and a vol surface has just reloaded its own snapshot
C22_Witness ==
    /\ pc[1] = "idle"
    /\ \E i \in DOMAIN snaps :
            /\ mgr[1] = [spotRates |-> snaps[i].SpotRates,
                         discountCurves |-> snaps[i].DiscountCurves,
                         volSurfaces |-> snaps[i].VolSurfaces]
            /\ taken[i].of = 1
            /\ now = snaps[i].SnapshotTime + 1
            /\ DOMAIN taken[i].content[1] # {}
            /\ DOMAIN taken[i].content[3] # {}

\* the goroutines that hold the lock of Manager m for writing
Writers(m) == {g \in Procs : pc[g] = "Locked" /\ frame[g].m = m /\ frame[g].op \in WriteOps}
\* the goroutines that hold it for reading
Readers(m) == {g \in Procs : pc[g] # "idle" /\ pc[g] # "Lock" /\ pc[g] # "Return"
                               /\ frame[g].m = m /\ frame[g].op \in ReadOps}
\* the record an update call in its critical section stores
Record(f) ==
    CASE f.op = "UpdateSpotRate" -> SpotRate(f.key, f.val, now)
      [] f.op = "UpdateDiscountCurve" -> DiscountCurve(f.key, f.val, f.comp, now)
      [] f.op = "UpdateVolSurface" -> VolSurface(f.key, f.val, now)

\* C23: the accepted updates of concurrent goroutines on one Manager take effect one
\* at a time: at most one goroutine is in a critical section of the Manager for
\* writing, and none for reading meanwhile; the write of each call adds its whole
\* record under its key to the state the calls before it left and changes nothing
\* else, so that no update is lost, updates of distinct keys are all present, and
\* a key updated by several calls holds the whole record of the call that wrote last
C23_UpdatesSerialized ==
    /\ [](\A m \in Managers : /\ Cardinality(Writers(m)) <= 1
                               /\ Writers(m) # {} => Readers(m) = {})
    /\ [][\A m \in Managers :
            \A before \in {ManagerState(m)}, W \in {{g \in Procs : UpdateReturns(g) /\ frame[g].m = m}} :
                /\ Cardinality(W) <= 1
                /\ W = {} => ManagerState(m)' = before
                /\ \A g \in W : \A f \in {frame[g]}, entry \in {Record(frame[g])} :
                        \A j \in {1, 2, 3} :
                            /\ j # OwnMap(f.op) => ManagerState(m)'[j] = before[j]
                            /\ j = OwnMap(f.op) =>
                                    /\ DOMAIN ManagerState(m)'[j] = DOMAIN before[j] \cup {f.key}
                                    /\ ManagerState(m)'[j][f.key] = entry
                                    /\ \A k \in DOMAIN before[j] \ {f.key} :
                                            ManagerState(m)'[j][k] = before[j][k]]_vars
\* one goroutine waits for the lock to update a pair while another, in its critical
\* section, is about to write a different rate for the same pair
C23_Witness ==
    \E g, h \in Procs :
        /\ pc[g] = "Locked" /\ pc[h] = "Lock"
        /\ frame[g].op = "UpdateSpotRate" /\ frame[h].op = "UpdateSpotRate"
        /\ frame[g].key = frame[h].key
        /\ frame[g].val # frame[h].val

\* C25: Connect succeeds or fails cleanly: when the dial fails or runs into the 5 s
\* timeout, Connect returns an error and leaves the client's connection state as it
\* was, so that a client that never connected is still not connected and
\* IsConnected is false; when the dial succeeds, Connect returns nil and IsConnected
\* is true
C25_ConnectClean ==
    call.op = "Connect" =>
        /\ call.err # "nil" =>
                /\ ClientState = call.before
                /\ call.before.conns = <<>> => (conn = 0 /\ ~IsConnected)
                /\ IsConnected <=> call.before.conn # 0
        /\ call.err = "nil" =>
                /\ IsConnected
                /\ conn \in DOMAIN conns /\ conns[conn] = "open"
                /\ conn \notin DOMAIN call.before.conns
\* the dial of a client that never connected has run into the timeout
C25_Witness ==
    /\ call.op = "Connect"
    /\ call.err = "failed to connect to pricing service: context deadline exceeded"
    /\ call.before.conns = <<>>
    /\ ~IsConnected

\* the goroutines in a critical section of Manager m: between the Lock() / RLock()
\* that succeeded and the return
Inside(m, ops) ==
    {g \in Procs : pc[g] \notin {"idle", "Lock", "Pending", "Return", "SnapRead"}
                    /\ frame[g].m = m /\ frame[g].op \in ops}
\* the lock of every Manager is held by the calls in its critical sections and by
\* nothing else: a call holds the lock once, and a call that returned, with an error
\* or not, or that has not got the lock yet, holds none
LockDiscipline ==
    \A m \in Managers :
        /\ mu[m].r = Inside(m, ReadOps)
        /\ mu[m].w = 0 <=> Inside(m, WriteOps) = {}
        /\ mu[m].w # 0 => Inside(m, WriteOps) = {mu[m].w}

\* C24: the Manager is deadlock-free: every call takes the Manager's lock once and
\* has released it when it returns, with an error or without, and under a fair
\* scheduler every call of every goroutine to Update*, Get*, GetSnapshot,
\* LoadSnapshot and Stats returns
C24_EveryCallReturns ==
    /\ []LockDiscipline
    /\ \A g \in Procs : (pc[g] # "idle") ~> (pc[g] = "idle")
\* an update waits in Lock(), the readers behind it, while a GetSnapshot of another
\* goroutine is copying under the read lock
C24_Witness ==
    \E g, h \in Procs :
        /\ pc[g] = "Pending" /\ frame[g].op \in UpdateOps
        /\ pc[h] = "CopyCurves" /\ frame[h].op = "GetSnapshot"
        /\ frame[g].m = frame[h].m

=============================================================================
